---- MODULE Spec2Model ----
(***************************************************************************)
(* A model of ChordKey/KeyCommon.py: the label resolution of KeyCommon,    *)
(* the colour cache and the rectangle pipeline of RectKeyCommon.           *)
(*                                                                         *)
(* Python values are tagged records, so that None, strings, lists and      *)
(* booleans can be compared with each other as Python compares them.       *)
(* Lengths are integers in units of 1/Scale of a logical unit, which makes *)
(* the divisions by 100.0 and 2.0 of _apply_key_size exact.                *)
(***************************************************************************)
EXTENDS Integers, Sequences, FiniteSets, TLC

VARIABLES
    labels,        \* KeyCommon.labels: {modifier_mask : label}
    label,         \* KeyCommon.label: the label currently displayed
    id,            \* RectKeyCommon.id, a sequence of characters
    modifier,      \* KeyCommon.modifier: the modifier bit, or None
    flags,         \* prelight, pressed, active, locked, sensitive, scanned
    colors,        \* RectKeyCommon.colors: {color_key : rgba}
    color_scheme,  \* TRUE when a colour scheme is attached to the key
    log_rect,      \* context.log_rect: the nominal rectangle of the key
    theme,         \* config.theme_settings: key_size and key_style
    label_align,   \* label_x_align and label_y_align, in hundredths
    call,          \* the last call made on the key, with what it observed
    ret,           \* the value the last call returned
    theme_calls    \* per color_key, the results of color_scheme.get_key_rgba

vars == <<labels, label, id, modifier, flags, colors, color_scheme,
          log_rect, theme, label_align, call, ret, theme_calls>>

-----------------------------------------------------------------------------
(* Python values *)

None == [tag |-> "None"]
KeyError == [tag |-> "KeyError"]
Str(s) == [tag |-> "str", val |-> s]
Bool(b) == [tag |-> "bool", val |-> b]
List(s) == [tag |-> "list", val |-> s]
PyInt(n) == [tag |-> "int", val |-> n]
Tuple(s) == [tag |-> "tuple", val |-> s]

\* Python truth value of an object: "not x" is ~Truthy(x)
Truthy(v) ==
    CASE v.tag = "None" -> FALSE
      [] v.tag = "bool" -> v.val
      [] v.tag = "list" -> v.val # <<>>
      [] v.tag = "str"  -> v.val # ""
      [] v.tag = "int"  -> v.val # 0
      [] OTHER -> TRUE

\* dict.get(k): None when the key is absent
Get(d, k) == IF k \in DOMAIN d THEN d[k] ELSE None

\* d[k]: raises KeyError when the key is absent
GetItem(d, k) == IF k \in DOMAIN d THEN d[k] ELSE KeyError

\* d[k] = v
SetItem(d, k, v) == [j \in DOMAIN d \cup {k} |-> IF j = k THEN v ELSE d[j]]

RECURSIVE BitAnd(_, _)
\* a & b on non-negative integers
BitAnd(a, b) ==
    IF a = 0 \/ b = 0 THEN 0
    ELSE 2 * BitAnd(a \div 2, b \div 2) + (a % 2) * (b % 2)

-----------------------------------------------------------------------------
(* ChordKey.utils: Modifiers and LABEL_MODIFIERS *)

SHIFT == 1
CAPS == 2
CTRL == 4
ALT == 8
NUMLK == 16
MOD3 == 32
SUPER == 64
ALTGR == 128

LABEL_MODIFIERS == SHIFT + CAPS + NUMLK + ALTGR

-----------------------------------------------------------------------------
(* Bounds of the label inputs *)

\* how many of the modifier bits of ModifierBits a modifier mask may have set
NumMaskBits == 4

ModifierBits == <<SHIFT, CAPS, ALTGR, CTRL, NUMLK, ALT, MOD3, SUPER>>

RECURSIVE SumOf(_)
SumOf(S) == IF S = {} THEN 0
            ELSE LET e == CHOOSE e \in S : TRUE IN e + SumOf(S \ {e})

MaskBitCount == IF NumMaskBits < Len(ModifierBits) THEN NumMaskBits
                ELSE Len(ModifierBits)

\* the modifier masks configure_label is called with
Masks == { SumOf(B) : B \in SUBSET { ModifierBits[i] : i \in 1..MaskBitCount } }

\* the slots a label map may fill: the default slot, the legacy slots and
\* two combined masks (Shift+CapsLock, Shift+Ctrl)
Slots == {0, 1, 2, 128, 129, 3, 5}

SlotLabel(k) ==
    CASE k = 0 -> "a" [] k = 1 -> "b" [] k = 2 -> "c" [] k = 128 -> "d"
      [] k = 129 -> "e" [] k = 3 -> "f" [] OTHER -> "g"

\* every label map over the slots whose labels are the slot's own letter,
\* but for at most one, which is the empty string
LabelMaps ==
    UNION { { [k \in D |-> IF k \in E THEN Str("") ELSE Str(SlotLabel(k))] :
              E \in {{}} \cup { {e} : e \in D } } :
            D \in SUBSET Slots }

-----------------------------------------------------------------------------
(* KeyCommon.configure_label *)

\* the mutant of label_lookup: the exact mask is never looked up
label_lookup_masked_only(lbls, mod_mask) ==
    Get(lbls, BitAnd(mod_mask, LABEL_MODIFIERS))

\* labels.get(mod_mask), then labels.get(mod_mask & LABEL_MODIFIERS)
label_lookup(lbls, mod_mask) ==
    LET l == Get(lbls, mod_mask)
    IN  IF l = None THEN Get(lbls, BitAnd(mod_mask, LABEL_MODIFIERS)) ELSE l

\* the mutant of legacy_fallback: the three branches are tried one after
\* the other (if, if, if) instead of being alternatives (if, elif, elif)
legacy_fallback_fall_through(lbls, mod_mask) ==
    LET a == IF BitAnd(mod_mask, SHIFT) # 0
             THEN IF BitAnd(mod_mask, ALTGR) # 0 /\ 129 \in DOMAIN lbls
                  THEN GetItem(lbls, 129)
                  ELSE IF 1 \in DOMAIN lbls THEN GetItem(lbls, 1)
                  ELSE IF 2 \in DOMAIN lbls THEN GetItem(lbls, 2)
                  ELSE None
             ELSE None
        b == IF a = None /\ BitAnd(mod_mask, ALTGR) # 0 /\ 128 \in DOMAIN lbls
             THEN GetItem(lbls, 128)
             ELSE a
    IN  IF b = None /\ BitAnd(mod_mask, CAPS) # 0
        THEN IF 2 \in DOMAIN lbls THEN GetItem(lbls, 2)
             ELSE IF 1 \in DOMAIN lbls THEN GetItem(lbls, 1)
             ELSE None
        ELSE b

\* the legacy fallback for 0.98 behavior: the label of a legacy slot, None
\* when no slot is selected, KeyError when a slot is read that is not there
legacy_fallback(lbls, mod_mask) ==
    IF BitAnd(mod_mask, SHIFT) # 0
    THEN IF BitAnd(mod_mask, ALTGR) # 0 /\ 129 \in DOMAIN lbls
         THEN GetItem(lbls, 129)
         ELSE IF 1 \in DOMAIN lbls THEN GetItem(lbls, 1)
         ELSE IF 2 \in DOMAIN lbls THEN GetItem(lbls, 2)
         ELSE None
    ELSE IF BitAnd(mod_mask, ALTGR) # 0 /\ 128 \in DOMAIN lbls
         THEN GetItem(lbls, 128)
    ELSE IF BitAnd(mod_mask, CAPS) # 0
         THEN IF 2 \in DOMAIN lbls THEN GetItem(lbls, 2)
              ELSE IF 1 \in DOMAIN lbls THEN GetItem(lbls, 1)
              ELSE None
    ELSE None

\* the mutant of configure_label: the last default, the empty string, is
\* missing
configure_label_no_empty_default(lbls, mod_mask) ==
    LET l2 == label_lookup(lbls, mod_mask)
        l3 == IF l2 = None THEN legacy_fallback(lbls, mod_mask) ELSE l2
    IN  IF l3 = None THEN Get(lbls, 0) ELSE l3

\* the value configure_label assigns to self.label, or KeyError
configure_label(lbls, mod_mask) ==
    LET l2 == label_lookup(lbls, mod_mask)
        l3 == IF l2 = None THEN legacy_fallback(lbls, mod_mask) ELSE l2
        l4 == IF l3 = None THEN Get(lbls, 0) ELSE l3
    IN  IF l4 = None THEN Str("") ELSE l4

-----------------------------------------------------------------------------
(* KeyCommon queries *)

FlagNames == {"prelight", "pressed", "active", "locked", "sensitive", "scanned"}

\* the class-level defaults of the flags; sensitive comes from the layout item
DefaultFlags ==
    [prelight |-> FALSE, pressed |-> FALSE, active |-> FALSE,
     locked |-> FALSE, sensitive |-> TRUE, scanned |-> FALSE]

\* the mutant of is_pressed_only: scanned is not looked at
is_pressed_only_without_scanned(f) ==
    IF ~f.pressed THEN Bool(f.pressed)
    ELSE Bool(~(f.active \/ f.locked))

is_pressed_only(f) ==
    IF ~f.pressed THEN Bool(f.pressed)
    ELSE Bool(~(f.active \/ f.locked \/ f.scanned))

is_modifier(m) == Bool(Truthy(m))

\* self.id.startswith("layer")
is_layer_button(i) ==
    Bool(Len(i) >= 5 /\ SubSeq(i, 1, 5) = <<"l", "a", "y", "e", "r">>)

\* x- and y-offset of the aligned label; the alignment is in hundredths
align_label(align, label_size, key_size) ==
    Tuple(<<align[1] * (key_size[1] - label_size[1]),
            align[2] * (key_size[2] - label_size[2])>>)

-----------------------------------------------------------------------------
(* RectKeyCommon._get_color *)

Black == List(<<0, 0, 0, 1>>)
White == List(<<1, 1, 1, 1>>)

color_key_of(element, f) ==
    <<element, f.prelight, f.pressed, f.active, f.locked, f.sensitive,
      f.scanned>>

\* the mutant of _get_color: the cached value is not used
_get_color_uncached(cols, f, scheme, element, answer) ==
    LET color_key == color_key_of(element, f)
        rgba == IF scheme THEN answer
                ELSE IF element = "label" THEN Black
                ELSE White
    IN  [rgba |-> rgba, colors |-> SetItem(cols, color_key, rgba),
         miss |-> TRUE, looked_up |-> scheme]

\* the mutant of _get_color: the default is white for every role
_get_color_white_label(cols, f, scheme, element, answer) ==
    LET color_key == color_key_of(element, f)
        cached == Get(cols, color_key)
    IN  IF ~Truthy(cached)
        THEN LET rgba == IF scheme THEN answer ELSE White
             IN  [rgba |-> rgba, colors |-> SetItem(cols, color_key, rgba),
                  miss |-> TRUE, looked_up |-> scheme]
        ELSE [rgba |-> cached, colors |-> cols,
              miss |-> FALSE, looked_up |-> FALSE]

\* the mutant of _get_color: a miss starts the cache afresh
_get_color_fresh_cache(cols, f, scheme, element, answer) ==
    LET color_key == color_key_of(element, f)
        cached == Get(cols, color_key)
    IN  IF ~Truthy(cached)
        THEN LET rgba == IF scheme THEN answer
                         ELSE IF element = "label" THEN Black
                         ELSE White
             IN  [rgba |-> rgba, colors |-> SetItem(<<>>, color_key, rgba),
                  miss |-> TRUE, looked_up |-> scheme]
        ELSE [rgba |-> cached, colors |-> cols,
              miss |-> FALSE, looked_up |-> FALSE]

\* One call of _get_color. answer is what color_scheme.get_key_rgba returns
\* if it is invoked. The result holds the value returned, the cache after
\* the call and whether the colour scheme was asked.
_get_color(cols, f, scheme, element, answer) ==
    LET color_key == color_key_of(element, f)
        cached == Get(cols, color_key)
    IN  IF ~Truthy(cached)
        THEN LET rgba == IF scheme THEN answer
                         ELSE IF element = "label" THEN Black
                         ELSE White
             IN  [rgba |-> rgba, colors |-> SetItem(cols, color_key, rgba),
                  miss |-> TRUE, looked_up |-> scheme]
        ELSE [rgba |-> cached, colors |-> cols,
              miss |-> FALSE, looked_up |-> FALSE]

-----------------------------------------------------------------------------
(* Rect and the rectangle pipeline of RectKeyCommon *)

\* lengths per logical unit: the 2.0 and the 100.0 that _apply_key_size
\* divides by
Scale == 2 * 100

Rect(x, y, w, h) == [tag |-> "Rect", x |-> x, y |-> y, w |-> w, h |-> h]

Max0(n) == IF n < 0 THEN 0 ELSE n

\* Rect.deflate: shrink toward the centre, never below an empty rectangle
deflate(rect, dx, dy) ==
    Rect(rect.x + dx, rect.y + dy, Max0(rect.w - 2 * dx), Max0(rect.h - 2 * dy))

\* LayoutItem.get_rect: the nominal rectangle, as a fresh object
LayoutItem_get_rect(lr) == lr

get_fullsize_rect(lr) == LayoutItem_get_rect(lr)

\* the mutant of key_size_borders: the two aspect tests are exchanged, so
\* the amount comes from the larger side
key_size_borders_larger_side(rect, key_size) ==
    LET bx0 == (rect.w * (100 - key_size)) \div Scale
        by0 == (rect.h * (100 - key_size)) \div Scale
        by1 == IF rect.h < rect.w THEN bx0 ELSE by0
        bx1 == IF rect.h > rect.w THEN by1 ELSE bx0
    IN  <<bx1, by1>>

\* the amounts <<bx, by>> that _apply_key_size passes to rect.deflate
key_size_borders(rect, key_size) ==
    LET bx0 == (rect.w * (100 - key_size)) \div Scale
        by0 == (rect.h * (100 - key_size)) \div Scale
        by1 == IF rect.h > rect.w THEN bx0 ELSE by0
        bx1 == IF rect.h < rect.w THEN by1 ELSE bx0
    IN  <<bx1, by1>>

\* the mutant of _apply_key_size: size - 1.0 for 1.0 - size, which makes
\* both amounts negative
_apply_key_size_negated(rect, key_size) ==
    LET b == key_size_borders(rect, key_size)
    IN  deflate(rect, 0 - b[1], 0 - b[2])

_apply_key_size(rect, key_size) ==
    LET b == key_size_borders(rect, key_size)
    IN  deflate(rect, b[1], b[2])

get_unpressed_rect(lr, th) == _apply_key_size(get_fullsize_rect(lr), th.key_size)

\* the mutant of pressed_rect: the width and height statements of the fake
\* key action are assignments (rect.w -= 2 * k, rect.h -= k)
pressed_rect_resized(lr, f, th) ==
    LET rect == get_fullsize_rect(lr)
    IN  IF f.pressed
        THEN IF th.key_style = "gradient"
             THEN LET k == (20 * Scale) \div 100
                  IN  [rect EXCEPT !.x = @ + k, !.y = @ + 2 * k,
                                   !.w = @ - 2 * k, !.h = @ - k]
             ELSE IF th.key_style = "dish"
             THEN LET k == (45 * Scale) \div 100
                  IN  [rect EXCEPT !.x = @ + k, !.y = @ + 2 * k,
                                   !.w = @ - 2 * k, !.h = @ - k]
             ELSE rect
        ELSE rect

\* the rectangle get_rect hands to _apply_key_size: the fake physical key
\* action, k = 0.2 for gradient and k = 0.45 for dish; "rect.w - 2 * k" and
\* "rect.h - k" are expressions without effect
pressed_rect(lr, f, th) ==
    LET rect == get_fullsize_rect(lr)
    IN  IF f.pressed
        THEN IF th.key_style = "gradient"
             THEN LET k == (20 * Scale) \div 100
                  IN  [rect EXCEPT !.x = @ + k, !.y = @ + 2 * k]
             ELSE IF th.key_style = "dish"
             THEN LET k == (45 * Scale) \div 100
                  IN  [rect EXCEPT !.x = @ + k, !.y = @ + 2 * k]
             ELSE rect
        ELSE rect

get_rect(lr, f, th) == _apply_key_size(pressed_rect(lr, f, th), th.key_size)

-----------------------------------------------------------------------------
(* Bounds of the colour and rectangle inputs *)

\* how many entries the colour cache may hold
MaxCacheEntries == 2

\* how often the colour scheme may be asked for one color_key
MaxLookups == 2

\* rectangles have their origin in 0..MaxCoord and sides in 0..MaxDim
MaxCoord == 1
MaxDim == 2

\* the flags the input handling changes while colours are queried
ToggledFlags == {"pressed"}

\* "hover" stands for a role the key classes do not know
Roles == {"label", "fill", "hover"}

\* what color_scheme.get_key_rgba may return: nothing, or one of two colours
ThemeAnswers == {None, List(<<1, 0, 0, 1>>), List(<<0, 0, 1, 1>>)}

Rects ==
    { Rect(x * Scale, y * Scale, w * Scale, h * Scale) :
        x \in 0..MaxCoord, y \in 0..MaxCoord, w \in 0..MaxDim, h \in 0..MaxDim }

KeySizes == {1, 25, 50, 100}
KeyStyles == {"flat", "gradient", "dish"}

Themes == [key_size : KeySizes, key_style : KeyStyles]

Ids == { <<"D", "E", "L", "E">>, <<"l", "a", "y", "e", "r", "1">>,
         <<"l", "a", "y">> }

ModifierBitsOfKeys == {None, PyInt(SHIFT), PyInt(ALTGR)}

Aligns == {<<50, 50>>, <<0, 100>>}
Sizes == {<<1, 1>>, <<3, 2>>}

\* the label map of the examples: {0: "a", 1: "b", 2: "c", 128: "d", 129: "e"}
ExampleLabels == [k \in {0, 1, 2, 128, 129} |-> Str(SlotLabel(k))]

-----------------------------------------------------------------------------
(* Operations *)

\* the results color_scheme.get_key_rgba gave for a color_key so far
CallsOf(k) == IF k \in DOMAIN theme_calls THEN theme_calls[k] ELSE <<>>

ConfigureLabel(mod_mask) ==
    LET r == configure_label(labels, mod_mask)
    IN  /\ label' = IF r = KeyError THEN label ELSE r
        /\ call' = [op |-> "configure_label", mod_mask |-> mod_mask,
                    raised |-> (r = KeyError)]
        /\ ret' = None
        /\ UNCHANGED <<labels, id, modifier, flags, colors, color_scheme,
                       log_rect, theme, label_align, theme_calls>>

\* the input handling sets one of the flags
SetFlag(f, v) ==
    /\ flags[f] # v
    /\ flags' = [flags EXCEPT ![f] = v]
    /\ call' = [op |-> "set_flag", flag |-> f]
    /\ ret' = None
    /\ UNCHANGED <<labels, label, id, modifier, colors, color_scheme,
                   log_rect, theme, label_align, theme_calls>>

GetColor(element) ==
    LET k == color_key_of(element, flags)
        asked == _get_color(colors, flags, color_scheme, element, None).looked_up
    IN  \E answer \in (IF asked THEN ThemeAnswers ELSE {None}) :
          LET r == _get_color(colors, flags, color_scheme, element, answer)
          IN  /\ asked => Len(CallsOf(k)) < MaxLookups
              /\ Cardinality(DOMAIN r.colors) <= MaxCacheEntries
              /\ colors' = r.colors
              /\ ret' = r.rgba
              /\ call' = [op |-> "_get_color", element |-> element,
                          color_key |-> k, miss |-> r.miss,
                          looked_up |-> r.looked_up, answer |-> answer]
              /\ theme_calls' = IF r.looked_up
                                THEN SetItem(theme_calls, k,
                                             Append(CallsOf(k), answer))
                                ELSE theme_calls
              /\ UNCHANGED <<labels, label, id, modifier, flags, color_scheme,
                             log_rect, theme, label_align>>

IsPressedOnly ==
    /\ ret' = is_pressed_only(flags)
    /\ call' = [op |-> "is_pressed_only"]
    /\ UNCHANGED <<labels, label, id, modifier, flags, colors, color_scheme,
                   log_rect, theme, label_align, theme_calls>>

IsModifier ==
    /\ ret' = is_modifier(modifier)
    /\ call' = [op |-> "is_modifier"]
    /\ UNCHANGED <<labels, label, id, modifier, flags, colors, color_scheme,
                   log_rect, theme, label_align, theme_calls>>

IsLayerButton ==
    /\ ret' = is_layer_button(id)
    /\ call' = [op |-> "is_layer_button"]
    /\ UNCHANGED <<labels, label, id, modifier, flags, colors, color_scheme,
                   log_rect, theme, label_align, theme_calls>>

AlignLabel(label_size, key_size) ==
    /\ ret' = align_label(label_align, label_size, key_size)
    /\ call' = [op |-> "align_label", label_size |-> label_size,
                key_size |-> key_size]
    /\ UNCHANGED <<labels, label, id, modifier, flags, colors, color_scheme,
                   log_rect, theme, label_align, theme_calls>>

GetRect ==
    /\ ret' = get_rect(log_rect, flags, theme)
    /\ call' = [op |-> "get_rect",
                deflate_by |-> key_size_borders(pressed_rect(log_rect, flags, theme),
                                                theme.key_size)]
    /\ UNCHANGED <<labels, label, id, modifier, flags, colors, color_scheme,
                   log_rect, theme, label_align, theme_calls>>

GetUnpressedRect ==
    /\ ret' = get_unpressed_rect(log_rect, theme)
    /\ call' = [op |-> "get_unpressed_rect",
                deflate_by |-> key_size_borders(get_fullsize_rect(log_rect),
                                                theme.key_size)]
    /\ UNCHANGED <<labels, label, id, modifier, flags, colors, color_scheme,
                   log_rect, theme, label_align, theme_calls>>

-----------------------------------------------------------------------------
(* Specifications *)

\* a key after construction, with the class-level defaults
NewKey ==
    /\ label = Str("")
    /\ flags = DefaultFlags
    /\ colors = <<>>
    /\ call = [op |-> "__init__"]
    /\ ret = None
    /\ theme_calls = <<>>

\* label resolution, for every label map and every modifier mask
InitLabel ==
    /\ NewKey
    /\ labels \in LabelMaps
    /\ id = <<"D", "E", "L", "E">>
    /\ modifier = None
    /\ color_scheme = TRUE
    /\ log_rect = Rect(0, 0, Scale, Scale)
    /\ theme = [key_size |-> 100, key_style |-> "flat"]
    /\ label_align = <<50, 50>>

NextLabel == \E m \in Masks : ConfigureLabel(m)

SpecLabel == InitLabel /\ [][NextLabel]_vars

\* the colour cache under flag changes
InitColor ==
    /\ NewKey
    /\ labels = ExampleLabels
    /\ id = <<"D", "E", "L", "E">>
    /\ modifier = None
    /\ color_scheme \in BOOLEAN
    /\ log_rect = Rect(0, 0, Scale, Scale)
    /\ theme = [key_size |-> 100, key_style |-> "flat"]
    /\ label_align = <<50, 50>>

NextColor ==
    \/ \E f \in ToggledFlags, v \in BOOLEAN : SetFlag(f, v)
    \/ \E e \in Roles : GetColor(e)

SpecColor == InitColor /\ [][NextColor]_vars

\* the rectangle pipeline, for every nominal rectangle and theme
InitRect ==
    /\ NewKey
    /\ labels = ExampleLabels
    /\ id = <<"D", "E", "L", "E">>
    /\ modifier = None
    /\ color_scheme = TRUE
    /\ log_rect \in Rects
    /\ theme \in Themes
    /\ label_align = <<50, 50>>

NextRect ==
    \/ \E v \in BOOLEAN : SetFlag("pressed", v)
    \/ GetRect
    \/ GetUnpressedRect

SpecRect == InitRect /\ [][NextRect]_vars

\* the flag queries, for every combination of the flags
InitFlags ==
    /\ NewKey
    /\ labels = ExampleLabels
    /\ id \in Ids
    /\ modifier \in ModifierBitsOfKeys
    /\ color_scheme = TRUE
    /\ log_rect = Rect(0, 0, Scale, Scale)
    /\ theme = [key_size |-> 100, key_style |-> "flat"]
    /\ label_align \in Aligns

NextFlags ==
    \/ \E f \in FlagNames, v \in BOOLEAN : SetFlag(f, v)
    \/ IsPressedOnly
    \/ IsModifier
    \/ IsLayerButton
    \/ \E ls \in Sizes, ks \in Sizes : AlignLabel(ls, ks)

SpecFlags == InitFlags /\ [][NextFlags]_vars

\* every query on one key
Init ==
    /\ NewKey
    /\ labels = ExampleLabels
    /\ id = <<"l", "a", "y", "e", "r", "1">>
    /\ modifier = PyInt(SHIFT)
    /\ color_scheme \in BOOLEAN
    /\ log_rect = Rect(0, 0, Scale, Scale)
    /\ theme = [key_size |-> 100, key_style |-> "flat"]
    /\ label_align = <<50, 50>>

Next ==
    \/ \E v \in BOOLEAN : SetFlag("pressed", v)
    \/ \E m \in {SHIFT, ALTGR + CTRL} : ConfigureLabel(m)
    \/ \E e \in {"label", "fill"} : GetColor(e)
    \/ IsPressedOnly
    \/ IsModifier
    \/ IsLayerButton
    \/ AlignLabel(<<1, 1>>, <<3, 2>>)

Spec == Init /\ [][Next]_vars

-----------------------------------------------------------------------------
(* Label resolution: C1, C2, C3 *)

Has(k) == k \in DOMAIN labels
ShiftHeld(m) == BitAnd(m, SHIFT) # 0
AltGrHeld(m) == BitAnd(m, ALTGR) # 0
CapsHeld(m) == BitAnd(m, CAPS) # 0

\* the label of the default slot, the empty string without one
DefaultLabel == IF Has(0) THEN labels[0] ELSE Str("")

\* neither the mask nor the masked mask has an entry
LookupMisses(m) == ~Has(m) /\ ~Has(BitAnd(m, LABEL_MODIFIERS))

\* the legacy chain selects no slot for the mask
LegacySelectsNothing(m) ==
    IF ShiftHeld(m)
    THEN ~(AltGrHeld(m) /\ Has(129)) /\ ~Has(1) /\ ~Has(2)
    ELSE ~(AltGrHeld(m) /\ Has(128)) /\ (CapsHeld(m) => ~Has(2) /\ ~Has(1))

\* C1: after configure_label(mask) the label is the entry at exactly the
\* mask when the map has one, and otherwise the entry at
\* mask & LABEL_MODIFIERS when the map has one; the legacy slots and the
\* default slot play no part in either case.
C1_ExactThenMasked ==
    call.op = "configure_label" =>
        LET m == call.mod_mask
            mm == BitAnd(m, LABEL_MODIFIERS)
        IN  /\ Has(m) => label = labels[m]
            /\ ~Has(m) /\ Has(mm) => label = labels[mm]

\* Shift+Ctrl is held, the map has an entry at 5, at the masked mask 1 and
\* at the default slot, and the label is the entry at 5
C1_Witness ==
    /\ call.op = "configure_label"
    /\ call.mod_mask = SHIFT + CTRL
    /\ Has(5) /\ Has(1) /\ Has(0)
    /\ label = labels[5]
    /\ label # labels[1]
    /\ label # labels[0]

\* C2: when neither the mask nor the masked mask has an entry, the label is
\* picked by the fixed chain: with Shift, slot 129 (AltGr held and 129
\* present), else slot 1, else slot 2; without Shift, slot 128 (AltGr held
\* and 128 present), else with CapsLock slot 2, else slot 1; and slot 0 or
\* the empty string when the chain selects nothing. With Shift held, slot
\* 128 and the CapsLock branch are not consulted.
C2_LegacyChain ==
    (call.op = "configure_label" /\ LookupMisses(call.mod_mask)) =>
        LET m == call.mod_mask
            s129 == AltGrHeld(m) /\ Has(129)
            s128 == AltGrHeld(m) /\ Has(128)
        IN  /\ ShiftHeld(m) /\ s129 => label = labels[129]
            /\ ShiftHeld(m) /\ ~s129 /\ Has(1) => label = labels[1]
            /\ ShiftHeld(m) /\ ~s129 /\ ~Has(1) /\ Has(2) => label = labels[2]
            /\ ShiftHeld(m) /\ ~s129 /\ ~Has(1) /\ ~Has(2) => label = DefaultLabel
            /\ ~ShiftHeld(m) /\ s128 => label = labels[128]
            /\ ~ShiftHeld(m) /\ ~s128 /\ CapsHeld(m) /\ Has(2) => label = labels[2]
            /\ ~ShiftHeld(m) /\ ~s128 /\ CapsHeld(m) /\ ~Has(2) /\ Has(1)
                  => label = labels[1]
            /\ ~ShiftHeld(m) /\ ~s128 /\ (CapsHeld(m) => ~Has(2) /\ ~Has(1))
                  => label = DefaultLabel

\* Shift+CapsLock+AltGr is held, the map has slot 128 and slot 0 but none
\* of 129, 1 and 2, and the label is the one of slot 0, not of slot 128
C2_Witness ==
    /\ call.op = "configure_label"
    /\ call.mod_mask = SHIFT + CAPS + ALTGR
    /\ LookupMisses(call.mod_mask)
    /\ Has(128) /\ Has(0) /\ ~Has(129) /\ ~Has(1) /\ ~Has(2)
    /\ label = labels[0]
    /\ label # labels[128]

\* C3: configure_label does not raise and leaves the label a string, which
\* is the empty string exactly when no step selects an entry (the default
\* slot 0 included) or the entry selected is the empty string.
C3_LabelIsString ==
    call.op = "configure_label" =>
        LET m == call.mod_mask
            nothing == /\ LookupMisses(m)
                       /\ LegacySelectsNothing(m)
                       /\ ~Has(0)
        IN  /\ ~call.raised
            /\ label.tag = "str"
            /\ nothing => label = Str("")
            /\ ~nothing => \E k \in DOMAIN labels : label = labels[k]
            /\ label = Str("") <=>
                  (nothing \/ \E k \in DOMAIN labels :
                                   labels[k] = label /\ labels[k] = Str(""))

\* the empty map, Shift+AltGr held: the label is the empty string
C3_Witness ==
    /\ call.op = "configure_label"
    /\ call.mod_mask = SHIFT + ALTGR
    /\ DOMAIN labels = {}
    /\ ~call.raised
    /\ label = Str("")

-----------------------------------------------------------------------------
(* The colour cache: C4, C5, C10 *)

\* the built-in default of a role
DefaultColor(element) == IF element = "label" THEN Black ELSE White

\* the color_key has a non-empty value stored
Stored(k) == k \in DOMAIN colors /\ Truthy(colors[k])

C4_HitStep ==
    call'.op = "_get_color" =>
        LET k == call'.color_key
        IN  IF Stored(k)
            THEN /\ ret' = colors[k]
                 /\ ~call'.looked_up
                 /\ colors' = colors
                 /\ theme_calls' = theme_calls
            ELSE call'.looked_up <=> color_scheme

\* of the answers the colour scheme gave for one color_key, only the last
\* may be non-empty
C4_OneAnswerKept ==
    \A k \in DOMAIN theme_calls :
        \A i \in 1..(Len(theme_calls[k]) - 1) : ~Truthy(theme_calls[k][i])

QueryOps == {"configure_label", "_get_color", "is_pressed_only",
             "is_modifier", "is_layer_button", "align_label"}

C10_QueryStep ==
    call'.op \in QueryOps =>
        /\ UNCHANGED <<flags, labels, id, modifier>>
        /\ call'.op = "configure_label" => colors' = colors
        /\ call'.op = "_get_color" =>
              /\ label' = label
              /\ DOMAIN colors \subseteq DOMAIN colors'
              /\ DOMAIN colors' \subseteq DOMAIN colors \cup {call'.color_key}
              /\ \A k \in DOMAIN colors :
                    (Stored(k) \/ k # call'.color_key) => colors'[k] = colors[k]
        /\ call'.op \notin {"configure_label", "_get_color"} =>
              label' = label /\ colors' = colors

\* C10: a query leaves the flags, the label map, the id and the modifier
\* bit alone; configure_label changes only the label, _get_color only the
\* cache, to which it adds at most the entry of the current color_key
\* without removing an entry or replacing a non-empty value; the other
\* queries change nothing.
C10_QueriesKeepTheKey == [][C10_QueryStep]_vars

\* after label, colour and flag queries: a label resolved, two colours
\* cached, and the key as it was constructed
C10_Witness ==
    /\ call.op = "is_layer_button"
    /\ label = Str("b")
    /\ Cardinality(DOMAIN colors) = 2
    /\ flags = DefaultFlags
    /\ labels = ExampleLabels
    /\ modifier = PyInt(SHIFT)

-----------------------------------------------------------------------------
(* The flag queries: C8 *)

\* C8: is_pressed_only() is true exactly when pressed is set and active,
\* locked and scanned are not; prelight and sensitive make no difference.
C8_PressedOnly ==
    call.op = "is_pressed_only" =>
        /\ ret = Bool(/\ flags.pressed
                      /\ ~flags.active
                      /\ ~flags.locked
                      /\ ~flags.scanned)
        /\ \A p \in BOOLEAN, q \in BOOLEAN :
              is_pressed_only([flags EXCEPT !.prelight = p, !.sensitive = q])
                  = ret

\* pressed only, hovered and insensitive
C8_Witness ==
    /\ call.op = "is_pressed_only"
    /\ flags = [prelight |-> TRUE, pressed |-> TRUE, active |-> FALSE,
                locked |-> FALSE, sensitive |-> FALSE, scanned |-> FALSE]
    /\ ret = Bool(TRUE)

-----------------------------------------------------------------------------
(* The rectangle pipeline: C6, C7, C9 *)

\* the rectangle the last call handed to _apply_key_size
SizedRect ==
    IF call.op = "get_rect" THEN pressed_rect(log_rect, flags, theme)
    ELSE get_fullsize_rect(log_rect)

\* C6: the rectangle of _apply_key_size is no wider and no higher than its
\* input, and is the input itself for key_size = 100.
C6_ShrinkNeverGrows ==
    call.op \in {"get_unpressed_rect", "get_rect"} =>
        /\ ret.w <= SizedRect.w
        /\ ret.h <= SizedRect.h
        /\ theme.key_size = 100 => ret = SizedRect

\* a rectangle of 2 x 1 at key_size 50 comes out narrower and lower
C6_Witness ==
    /\ call.op = "get_unpressed_rect"
    /\ theme.key_size = 50
    /\ log_rect.w = 2 * Scale /\ log_rect.h = Scale
    /\ ret.w < log_rect.w /\ ret.h < log_rect.h
    /\ ret.w > 0

\* C7: both amounts passed to rect.deflate are the amount of the smaller
\* side, side * (1 - size) / 2: of the width when the rectangle is higher
\* than wide, of the height when it is wider than high.
C7_AspectCoupling ==
    call.op \in {"get_unpressed_rect", "get_rect"} =>
        LET bx == call.deflate_by[1]
            by == call.deflate_by[2]
            w == SizedRect.w
            h == SizedRect.h
            ks == theme.key_size
        IN  /\ bx = by
            /\ h > w => 2 * 100 * bx = w * (100 - ks)
            /\ w > h => 2 * 100 * bx = h * (100 - ks)
            /\ w = h => /\ 2 * 100 * bx = w * (100 - ks)
                        /\ 2 * 100 * by = h * (100 - ks)

\* a rectangle of 1 x 2 at key_size 50: both amounts are a quarter of the
\* width
C7_Witness ==
    /\ call.op = "get_unpressed_rect"
    /\ theme.key_size = 50
    /\ log_rect.w = Scale /\ log_rect.h = 2 * Scale
    /\ call.deflate_by = <<Scale \div 4, Scale \div 4>>

\* the offset of the fake key action, <<0.2, 0.4>> and <<0.45, 0.9>>
PressedOffset ==
    IF flags.pressed /\ theme.key_style = "gradient"
    THEN <<(2 * Scale) \div 10, (4 * Scale) \div 10>>
    ELSE IF flags.pressed /\ theme.key_style = "dish"
    THEN <<(45 * Scale) \div 100, (9 * Scale) \div 10>>
    ELSE <<0, 0>>

\* C9: get_rect() is get_unpressed_rect() moved by the offset of the style,
\* with the same width and height.
C9_PressedOnlyMoves ==
    call.op = "get_rect" =>
        LET u == get_unpressed_rect(log_rect, theme)
        IN  /\ ret.x = u.x + PressedOffset[1]
            /\ ret.y = u.y + PressedOffset[2]
            /\ ret.w = u.w
            /\ ret.h = u.h

\* a pressed dish key of 2 x 1 at key_size 50
C9_Witness ==
    /\ call.op = "get_rect"
    /\ flags.pressed
    /\ theme.key_style = "dish"
    /\ theme.key_size = 50
    /\ log_rect.w = 2 * Scale /\ log_rect.h = Scale
    /\ ret.x = get_unpressed_rect(log_rect, theme).x + (45 * Scale) \div 100
    /\ ret.w > 0

====
